---- MODULE Spec2Model ----
(***************************************************************************)
(* Model of the rerank proxy (src/src/main.rs): the warp route table of    *)
(* main, the handle_rerank pipeline (validation, translation, backend      *)
(* call, response parsing, ranking) and handle_rejection.                  *)
(*                                                                         *)
(* Every inbound request is one tokio task.  A task runs without           *)
(* suspension from route matching up to `send().await` (line 168), again   *)
(* up to `text().await` (lines 182 / 192), and then to its reply.  These   *)
(* three stretches are the atomic steps of the model.  The cors and log    *)
(* wrappers of line 88 leave the status and body of a reply as they are;   *)
(* requests are taken not to be CORS preflights.                           *)
(***************************************************************************)
EXTENDS Integers, Sequences, FiniteSets, TLC

\* ------------------------------------------------------------------ bounds
NumReqs == 2      \* inbound requests (tokio tasks) of a run
MaxDocs == 2      \* longest small documents list / backend array enumerated
MaxScore == 1     \* backend scores are drawn from 0..MaxScore
MaxIndex == 1     \* backend indices are drawn from 0..MaxIndex

\* ------------------------------------------------------ program constants
DefaultMaxBatchSize == 1000

Reqs == 1..NumReqs

VARIABLES
    env,             \* value of MAX_CLIENT_BATCH_SIZE in the process environment
    env0,            \* the value it had when main() started
    pc,              \* per task: "idle", "sending", "reading", "done"
    request,         \* per task: the inbound request
    max_batch_size,  \* per task: the local of line 126, <<>> until it is set
    client,          \* per task: outcome of reqwest::Client::builder().build()
    calls,           \* per task: the TEIRequests POSTed to the backend, in order
    backend,         \* per task: what the backend call has produced so far
    response         \* per task: the replies written to the caller, in order

vars == <<env, env0, pc, request, max_batch_size, client, calls, backend, response>>

\* ------------------------------------------------------------ environment
\* An environment variable is unset, or set to a string (a sequence of chars).
Unset == [set |-> FALSE, value |-> <<>>]
EnvString(s) == [set |-> TRUE, value |-> s]
EnvValues == {Unset, EnvString(<<"1">>), EnvString(<<"2">>), EnvString(<<"x">>)}

Digits == {"0", "1", "2", "3", "4", "5", "6", "7", "8", "9"}
DigitVal(c) ==
    CASE c = "0" -> 0 [] c = "1" -> 1 [] c = "2" -> 2 [] c = "3" -> 3 [] c = "4" -> 4
      [] c = "5" -> 5 [] c = "6" -> 6 [] c = "7" -> 7 [] c = "8" -> 8 [] c = "9" -> 9

RECURSIVE DecimalValue(_)
DecimalValue(s) ==
    IF s = <<>> THEN 0
    ELSE 10 * DecimalValue(SubSeq(s, 1, Len(s) - 1)) + DigitVal(s[Len(s)])

\* str::parse::<usize>: an optional "+", then one or more decimal digits.
\* <<>> is None (Err), <<n>> is Some(n).
ParseUsize(s) ==
    LET digits == IF s # <<>> /\ Head(s) = "+" THEN Tail(s) ELSE s
    IN  IF digits # <<>> /\ \A i \in 1..Len(digits) : digits[i] \in Digits
        THEN <<DecimalValue(digits)>>
        ELSE <<>>

\* env::var(..).ok().and_then(|v| v.parse().ok()).unwrap_or_else(|| 1000)
MaxBatchSize(e) ==
    IF e.set /\ ParseUsize(e.value) # <<>>
    THEN ParseUsize(e.value)[1]
    ELSE DefaultMaxBatchSize

\* --------------------------------------------------------------- requests
Whitespace == {" "}

RECURSIVE TrimStart(_)
TrimStart(s) ==
    IF s # <<>> /\ Head(s) \in Whitespace THEN TrimStart(Tail(s)) ELSE s

RECURSIVE TrimEnd(_)
TrimEnd(s) ==
    IF s # <<>> /\ s[Len(s)] \in Whitespace
    THEN TrimEnd(SubSeq(s, 1, Len(s) - 1))
    ELSE s

\* str::trim
Trim(s) == TrimEnd(TrimStart(s))

\* A documents list of n texts; a text is opaque to the proxy.
Docs(n) == [i \in 1..n |-> "doc"]

\* OpenWebUIRequest as deserialized by warp::body::json().  form is "json"
\* when the body deserializes, "malformed" when it does not, "none" when the
\* request carries no body.  top_n is an Option: <<>> or <<n>>.
NoBody == [form |-> "none", query |-> <<>>, documents |-> <<>>, top_n |-> <<>>]
MalformedBody == [form |-> "malformed", query |-> <<>>, documents |-> <<>>, top_n |-> <<>>]
JsonBody(q, d, t) == [form |-> "json", query |-> q, documents |-> d, top_n |-> t]

NoRequest == [method |-> "", path |-> <<>>, body |-> NoBody]

\* TEIRequest { query: req.query.clone(), texts: req.documents.clone() }
TEIRequest(body) == [query |-> body.query, texts |-> body.documents]

\* ------------------------------------------------------------ route table
\* warp::path(p) matches the first segment of the path.
PathMatches(path, p) == path # <<>> /\ Head(path) = p

\* health = warp::path("health").and(warp::get())
HealthMatches(req) == PathMatches(req.path, "health") /\ req.method = "GET"

Rejection(kind, text, num) == [kind |-> kind, text |-> text, num |-> num]

\* rerank = path("rerank").and(post()).and(body::json()): the rejection of the
\* first filter that fails, or "extracted" when the handler is reached.
RerankFilter(req) ==
    IF ~PathMatches(req.path, "rerank") THEN "NotFound"
    ELSE IF req.method # "POST" THEN "MethodNotAllowed"
    ELSE IF req.body.form # "json" THEN "BodyDeserializeError"
    ELSE "extracted"

\* ------------------------------------------------------------- validation
\* Mutant of Validate: the limit check rejects a list of exactly the maximum.
Validate_OffByOne(body, e) ==
    IF Trim(body.query) = <<>>
    THEN [result |-> Rejection("BadRequest", "Query cannot be empty", 0), limit |-> <<>>]
    ELSE IF body.documents = <<>>
    THEN [result |-> Rejection("BadRequest", "Documents list cannot be empty", 0),
          limit |-> <<>>]
    ELSE IF Len(body.documents) >= MaxBatchSize(e)
    THEN [result |-> Rejection("BadRequest", "Too many documents, max: ", MaxBatchSize(e)),
          limit |-> <<MaxBatchSize(e)>>]
    ELSE [result |-> Rejection("ok", "", 0), limit |-> <<MaxBatchSize(e)>>]

\* Lines 111-136: the BadRequest of the first check that fails, or "ok".
\* limit is the local max_batch_size, read only when the first two checks pass.
Validate(body, e) ==
    IF Trim(body.query) = <<>>
    THEN [result |-> Rejection("BadRequest", "Query cannot be empty", 0), limit |-> <<>>]
    ELSE IF body.documents = <<>>
    THEN [result |-> Rejection("BadRequest", "Documents list cannot be empty", 0),
          limit |-> <<>>]
    ELSE IF Len(body.documents) > MaxBatchSize(e)
    THEN [result |-> Rejection("BadRequest", "Too many documents, max: ", MaxBatchSize(e)),
          limit |-> <<MaxBatchSize(e)>>]
    ELSE [result |-> Rejection("ok", "", 0), limit |-> <<MaxBatchSize(e)>>]

\* -------------------------------------------------------------- responses
NoResults == <<>>
ErrorReply(code, error_type, text, num) ==
    [status |-> code, tag |-> "error", error |-> error_type,
     text |-> text, num |-> num, results |-> NoResults]
ResultsReply(results) ==
    [status |-> 200, tag |-> "results", error |-> "",
     text |-> "", num |-> 0, results |-> results]
HealthReply ==
    [status |-> 200, tag |-> "health", error |-> "",
     text |-> "healthy", num |-> 0, results |-> NoResults]

\* Mutant of handle_rejection: InternalError is reported like TEIError.
handle_rejection_AllTei(err) ==
    IF err.kind = "NotFound" THEN ErrorReply(404, "not_found", "Not Found", 0)
    ELSE IF err.kind = "BadRequest" THEN ErrorReply(400, "bad_request", err.text, err.num)
    ELSE IF err.kind \in {"TEIError", "InternalError"}
    THEN ErrorReply(502, "tei_error", err.text, err.num)
    ELSE IF err.kind = "BodyDeserializeError"
    THEN ErrorReply(400, "invalid_json", "Invalid JSON in request body", 0)
    ELSE ErrorReply(500, "internal_error", "Internal Server Error", 0)

\* handle_rejection, lines 284-318.
handle_rejection(err) ==
    IF err.kind = "NotFound" THEN ErrorReply(404, "not_found", "Not Found", 0)
    ELSE IF err.kind = "BadRequest" THEN ErrorReply(400, "bad_request", err.text, err.num)
    ELSE IF err.kind = "TEIError" THEN ErrorReply(502, "tei_error", err.text, err.num)
    ELSE IF err.kind = "InternalError"
    THEN ErrorReply(500, "internal_error", err.text, err.num)
    ELSE IF err.kind = "BodyDeserializeError"
    THEN ErrorReply(400, "invalid_json", "Invalid JSON in request body", 0)
    ELSE ErrorReply(500, "internal_error", "Internal Server Error", 0)

\* ---------------------------------------------------------------- backend
\* StatusCode::is_success: 200..=299
IsSuccess(status) == 200 <= status /\ status <= 299

\* A response body as text: a JSON array of {index, score} objects (an index
\* below 0 does not deserialize into usize), or text of any other shape.
\* serde_json yields finite f64 scores only, which are totally ordered;
\* they are modelled by integers.
ArrayText(items) == [kind |-> "array", items |-> items]
OtherText == [kind |-> "other", items |-> <<>>]
NoText == [kind |-> "none", items |-> <<>>]

Entry(i, s) == [index |-> i, score |-> s]

\* serde_json::from_str::<TEIResponse>, line 212: <<>> is Err, <<v>> is Ok(v).
ParseTEIResponse(text) ==
    IF text.kind = "array" /\ \A i \in 1..Len(text.items) : text.items[i].index >= 0
    THEN <<text.items>>
    ELSE <<>>

\* The result of `response.text().await`.
ReadOk(text) == [ok |-> TRUE, text |-> text]
ReadErr == [ok |-> FALSE, text |-> NoText]

NoBackend == [stage |-> "none", status |-> 0, read |-> ReadErr]

\* ----------------------------------------------------------------- ranker
\* The comparator of line 249 applied to (a, b):
\* b.1.partial_cmp(&a.1).unwrap_or(Equal), on pairs <<index, score>>.
Compare(a, b) ==
    IF b[2] < a[2] THEN "Less" ELSE IF b[2] > a[2] THEN "Greater" ELSE "Equal"

\* Mutant of InsertSorted: e also goes before an element it compares Equal to
\* (an unstable sort).
RECURSIVE InsertSorted_Unstable(_, _)
InsertSorted_Unstable(sorted, e) ==
    IF sorted = <<>> THEN <<e>>
    ELSE IF Compare(e, Head(sorted)) # "Greater" THEN <<e>> \o sorted
    ELSE <<Head(sorted)>> \o InsertSorted_Unstable(Tail(sorted), e)

\* Stable insertion: e goes before the first element it compares Less to.
RECURSIVE InsertSorted(_, _)
InsertSorted(sorted, e) ==
    IF sorted = <<>> THEN <<e>>
    ELSE IF Compare(e, Head(sorted)) = "Less" THEN <<e>> \o sorted
    ELSE <<Head(sorted)>> \o InsertSorted(Tail(sorted), e)

RECURSIVE SortBy(_)
SortBy(v) ==
    IF v = <<>> THEN <<>>
    ELSE InsertSorted(SortBy(SubSeq(v, 1, Len(v) - 1)), v[Len(v)])

\* Mutant of Rank: an index that already occurred is dropped before sorting.
Rank_Dedup(entries) ==
    LET first == {i \in 1..Len(entries) :
                     \A j \in 1..(i - 1) : entries[j].index # entries[i].index}
        Keep(e) == \E i \in first : entries[i] = e
        kept == SelectSeq(entries, Keep)
        indexed_scores == [i \in 1..Len(kept) |-> <<kept[i].index, kept[i].score>>]
        sorted == SortBy(indexed_scores)
    IN  [i \in 1..Len(sorted) |-> [index |-> sorted[i][1], relevance_score |-> sorted[i][2]]]

\* Lines 242-256: pairs (index, score), slice::sort_by (a stable sort), then
\* RankResult { index, relevance_score }.
Rank(entries) ==
    LET indexed_scores == [i \in 1..Len(entries) |-> <<entries[i].index, entries[i].score>>]
        sorted == SortBy(indexed_scores)
    IN  [i \in 1..Len(sorted) |-> [index |-> sorted[i][1], relevance_score |-> sorted[i][2]]]

\* Mutant of LengthMatches: a reply shorter than the documents list passes.
LengthMatches_AtMost(entries, documents) == Len(entries) <= Len(documents)

\* Line 224: tei_response.0.len() != req.documents.len() is the failure.
LengthMatches(entries, documents) == Len(entries) = Len(documents)

TEIError(text, num) == Rejection("TEIError", text, num)

\* Lines 177-270: from the status line and the body read to the reply.
ProcessResponse(documents, status, read) ==
    IF ~IsSuccess(status)
    THEN handle_rejection(TEIError("TEI service error ", status))
    ELSE IF ~read.ok
    THEN handle_rejection(TEIError("Failed to read response from TEI service", 0))
    ELSE IF ParseTEIResponse(read.text) = <<>>
    THEN handle_rejection(TEIError("Invalid response format from TEI service", 0))
    ELSE IF ~LengthMatches(ParseTEIResponse(read.text)[1], documents)
    THEN handle_rejection(
             TEIError("TEI response length doesn't match input documents", 0))
    ELSE ResultsReply(Rank(ParseTEIResponse(read.text)[1]))

\* ----------------------------------------------------------------- inputs
Methods == {"GET", "POST", "DELETE"}
Paths == {<<>>, <<"health">>, <<"rerank">>, <<"other">>}
Queries == {<<>>, <<" ">>, <<"q">>, <<" ", "q", " ">>}
TopNs == {<<>>, <<1>>}
DocCounts == (0..MaxDocs) \cup {DefaultMaxBatchSize, DefaultMaxBatchSize + 1}
Statuses == {200, 204, 500}

\* Every request over the bounds; only POST /rerank carries a body.
AllRequests ==
    {[method |-> m, path |-> p, body |-> NoBody] : m \in Methods, p \in Paths}
    \cup {[method |-> "POST", path |-> <<"rerank">>, body |-> MalformedBody]}
    \cup {[method |-> "POST", path |-> <<"rerank">>, body |-> JsonBody(q, Docs(n), t)] :
             q \in Queries, n \in DocCounts, t \in TopNs}

Entries ==
    {Entry(i, s) : i \in 0..MaxIndex, s \in 0..MaxScore} \cup {Entry(-1, 0)}

SeqsUpTo(S, n) == UNION {[1..k -> S] : k \in 0..n}

\* Every backend body over the bounds.
AllTexts == {OtherText} \cup {ArrayText(items) : items \in SeqsUpTo(Entries, MaxDocs)}

\* A fixed sample of requests and backend answers for the concurrent runs.
SampleRequests ==
    {[method |-> "GET", path |-> <<"health">>, body |-> NoBody],
     [method |-> "GET", path |-> <<"rerank">>, body |-> NoBody],
     [method |-> "POST", path |-> <<"rerank">>, body |-> JsonBody(<<" ">>, Docs(1), <<>>)],
     [method |-> "POST", path |-> <<"rerank">>, body |-> JsonBody(<<"q">>, Docs(1), <<>>)],
     [method |-> "POST", path |-> <<"rerank">>, body |-> JsonBody(<<"q">>, Docs(2), <<1>>)]}
SampleStatuses == {200, 500}
SampleTexts ==
    {OtherText, ArrayText(<<Entry(0, 0)>>), ArrayText(<<Entry(0, 0), Entry(1, 1)>>)}

\* ---------------------------------------------------------------- actions
Init ==
    /\ env \in EnvValues
    /\ env0 = env
    /\ pc = [r \in Reqs |-> "idle"]
    /\ request = [r \in Reqs |-> NoRequest]
    /\ max_batch_size = [r \in Reqs |-> <<>>]
    /\ client = [r \in Reqs |-> "none"]
    /\ calls = [r \in Reqs |-> <<>>]
    /\ backend = [r \in Reqs |-> NoBackend]
    /\ response = [r \in Reqs |-> <<>>]

\* Mutant of Reply: the reply is written through a buffer shared by the tasks,
\* so every task waiting for its backend body receives it too.
Reply_Broadcast(r, resp) ==
    /\ response' = [o \in Reqs |->
                       IF o = r \/ pc[o] = "reading"
                       THEN Append(response[o], resp) ELSE response[o]]
    /\ pc' = [o \in Reqs |-> IF o = r \/ pc[o] = "reading" THEN "done" ELSE pc[o]]

\* The task of r writes its reply and ends.
Reply(r, resp) ==
    /\ response' = [response EXCEPT ![r] = Append(@, resp)]
    /\ pc' = [pc EXCEPT ![r] = "done"]

\* GET /health: the static payload (lines 67-72).
ServeHealth(r, reqs) ==
    \E req \in reqs :
        /\ pc[r] = "idle"
        /\ HealthMatches(req)
        /\ request' = [request EXCEPT ![r] = req]
        /\ Reply(r, HealthReply)
        /\ UNCHANGED <<env, env0, max_batch_size, client, calls, backend>>

\* health rejects, a filter of rerank rejects, recover(handle_rejection) replies
\* (lines 75-80, 88).
ServeRejected(r, reqs) ==
    \E req \in reqs :
        /\ pc[r] = "idle"
        /\ ~HealthMatches(req)
        /\ RerankFilter(req) # "extracted"
        /\ request' = [request EXCEPT ![r] = req]
        /\ Reply(r, handle_rejection(Rejection(RerankFilter(req), "", 0)))
        /\ UNCHANGED <<env, env0, max_batch_size, client, calls, backend>>

\* Mutant of RerankInvalid: the POST is issued before the input is validated.
RerankInvalid_CallsFirst(r, reqs) ==
    \E req \in reqs :
        /\ pc[r] = "idle"
        /\ ~HealthMatches(req)
        /\ RerankFilter(req) = "extracted"
        /\ Validate(req.body, env).result.kind # "ok"
        /\ request' = [request EXCEPT ![r] = req]
        /\ max_batch_size' = [max_batch_size EXCEPT ![r] = Validate(req.body, env).limit]
        /\ calls' = [calls EXCEPT ![r] = Append(@, TEIRequest(req.body))]
        /\ Reply(r, handle_rejection(Validate(req.body, env).result))
        /\ UNCHANGED <<env, env0, client, backend>>

\* handle_rerank returns a BadRequest (lines 111-136).
RerankInvalid(r, reqs) ==
    \E req \in reqs :
        /\ pc[r] = "idle"
        /\ ~HealthMatches(req)
        /\ RerankFilter(req) = "extracted"
        /\ Validate(req.body, env).result.kind # "ok"
        /\ request' = [request EXCEPT ![r] = req]
        /\ max_batch_size' = [max_batch_size EXCEPT ![r] = Validate(req.body, env).limit]
        /\ Reply(r, handle_rejection(Validate(req.body, env).result))
        /\ UNCHANGED <<env, env0, client, calls, backend>>

\* Validation passes and Client::builder().build() fails (lines 153-161).
RerankClientFails(r, reqs) ==
    \E req \in reqs :
        /\ pc[r] = "idle"
        /\ ~HealthMatches(req)
        /\ RerankFilter(req) = "extracted"
        /\ Validate(req.body, env).result.kind = "ok"
        /\ request' = [request EXCEPT ![r] = req]
        /\ max_batch_size' = [max_batch_size EXCEPT ![r] = Validate(req.body, env).limit]
        /\ client' = [client EXCEPT ![r] = "failed"]
        /\ Reply(r, handle_rejection(
                        Rejection("InternalError", "HTTP client creation failed", 0)))
        /\ UNCHANGED <<env, env0, calls, backend>>

\* Validation passes, the client is built and the POST is issued; the task
\* suspends at send().await (lines 138-168).
RerankSend(r, reqs) ==
    \E req \in reqs :
        /\ pc[r] = "idle"
        /\ ~HealthMatches(req)
        /\ RerankFilter(req) = "extracted"
        /\ Validate(req.body, env).result.kind = "ok"
        /\ request' = [request EXCEPT ![r] = req]
        /\ max_batch_size' = [max_batch_size EXCEPT ![r] = Validate(req.body, env).limit]
        /\ client' = [client EXCEPT ![r] = "built"]
        /\ calls' = [calls EXCEPT ![r] = Append(@, TEIRequest(req.body))]
        /\ pc' = [pc EXCEPT ![r] = "sending"]
        /\ UNCHANGED <<env, env0, backend, response>>

\* Mutant of SendFails: a failed send is tried once more before giving up.
SendFails_Retry(r) ==
    /\ pc[r] = "sending"
    /\ IF Len(calls[r]) < 2
       THEN /\ calls' = [calls EXCEPT ![r] = Append(@, TEIRequest(request[r].body))]
            /\ UNCHANGED <<backend, response, pc>>
       ELSE /\ backend' = [backend EXCEPT ![r] = [@ EXCEPT !.stage = "send_error"]]
            /\ Reply(r, handle_rejection(TEIError("Failed to connect to TEI service: ", 0)))
            /\ UNCHANGED calls
    /\ UNCHANGED <<env, env0, request, max_batch_size, client>>

\* send().await yields Err (lines 169-175).
SendFails(r) ==
    /\ pc[r] = "sending"
    /\ backend' = [backend EXCEPT ![r] = [@ EXCEPT !.stage = "send_error"]]
    /\ Reply(r, handle_rejection(TEIError("Failed to connect to TEI service: ", 0)))
    /\ UNCHANGED <<env, env0, request, max_batch_size, client, calls>>

\* send().await yields a response with a status line; the task suspends at
\* text().await (line 182 or 192).
SendReturns(r, statuses) ==
    \E status \in statuses :
        /\ pc[r] = "sending"
        /\ backend' = [backend EXCEPT ![r] = [@ EXCEPT !.stage = "status", !.status = status]]
        /\ pc' = [pc EXCEPT ![r] = "reading"]
        /\ UNCHANGED <<env, env0, request, max_batch_size, client, calls, response>>

\* text().await yields the body or an error; the task runs to its reply
\* (lines 177-270).
ReadBody(r, texts) ==
    \E read \in {ReadErr} \cup {ReadOk(t) : t \in texts} :
        /\ pc[r] = "reading"
        /\ backend' = [backend EXCEPT ![r] = [@ EXCEPT !.stage = "body", !.read = read]]
        /\ Reply(r, ProcessResponse(request[r].body.documents, backend[r].status, read))
        /\ UNCHANGED <<env, env0, request, max_batch_size, client, calls>>

\* The process environment is given a different MAX_CLIENT_BATCH_SIZE while
\* the server runs; handle_rerank reads it with env::var on every request.
SetEnv ==
    /\ \E e \in EnvValues \ {env} : env' = e
    /\ UNCHANGED <<env0, pc, request, max_batch_size, client, calls, backend, response>>

Step(r, reqs, statuses, texts) ==
    \/ ServeHealth(r, reqs)
    \/ ServeRejected(r, reqs)
    \/ RerankInvalid(r, reqs)
    \/ RerankClientFails(r, reqs)
    \/ RerankSend(r, reqs)
    \/ SendFails(r)
    \/ SendReturns(r, statuses)
    \/ ReadBody(r, texts)

\* Concurrent tasks over the sample inputs.
Next == \E r \in Reqs : Step(r, SampleRequests, SampleStatuses, SampleTexts)
Spec == Init /\ [][Next]_vars

\* One request through the pipeline, over every input within the bounds.
NextPipeline == Step(1, AllRequests, Statuses, AllTexts)
SpecPipeline == Init /\ [][NextPipeline]_vars

\* Concurrent tasks while the environment changes.
NextEnv == Next \/ SetEnv
SpecEnv == Init /\ [][NextEnv]_vars

\* ----------------------------------------------------------------- claims
Done(r) == pc[r] = "done"
TheReply(r) == response[r][1]
IsError(resp, code, error_type) ==
    resp.status = code /\ resp.tag = "error" /\ resp.error = error_type

\* r carries a well-formed POST /rerank request.
WellFormedRerank(r) ==
    /\ request[r].method = "POST"
    /\ request[r].path = <<"rerank">>
    /\ request[r].body.form = "json"

Blank(q) == \A i \in 1..Len(q) : q[i] = " "
TooFew(r) == Blank(request[r].body.query) \/ Len(request[r].body.documents) = 0

\* The backend answered r with a 2xx status and a body that was read.
Answered2xx(r) ==
    /\ backend[r].stage = "body"
    /\ backend[r].status \in 200..299
    /\ backend[r].read.ok

Items(r) == backend[r].read.text.items
WellShaped(r) ==
    /\ backend[r].read.text.kind = "array"
    /\ \A i \in 1..Len(Items(r)) : Items(r)[i].index >= 0

\* The backend answered r with N well-shaped entries for its N documents.
GoodAnswer(r) ==
    /\ Done(r) /\ WellFormedRerank(r)
    /\ Answered2xx(r) /\ WellShaped(r)
    /\ Len(Items(r)) = Len(request[r].body.documents)

AsEntry(res) == Entry(res.index, res.relevance_score)
Count(seq, x) == Cardinality({i \in 1..Len(seq) : seq[i] = x})
ResultEntries(r) == [i \in 1..Len(TheReply(r).results) |-> AsEntry(TheReply(r).results[i])]

\* C1: a validated request with N documents whose backend reply is a 2xx array
\* of N entries is answered 200 with exactly N results, whatever top_n is;
\* the results are the backend's entries, each as often as the backend gave
\* it, in order of non-increasing relevance_score.
C1_RankedPermutation ==
    \A r \in Reqs :
        GoodAnswer(r) =>
            /\ Len(response[r]) = 1
            /\ TheReply(r).status = 200 /\ TheReply(r).tag = "results"
            /\ Len(TheReply(r).results) = Len(request[r].body.documents)
            /\ \A e \in Entries : Count(ResultEntries(r), e) = Count(Items(r), e)
            /\ \A i, j \in 1..Len(TheReply(r).results) :
                   i < j => TheReply(r).results[i].relevance_score
                                >= TheReply(r).results[j].relevance_score

\* Two documents, top_n = 1, a reply that names one index twice in ascending
\* score order: both entries are returned, reordered.
C1_Witness ==
    \E r \in Reqs :
        /\ GoodAnswer(r)
        /\ request[r].body.top_n = <<1>>
        /\ Len(Items(r)) = 2
        /\ Items(r)[1].index = Items(r)[2].index
        /\ Items(r)[1].score < Items(r)[2].score
        /\ Len(TheReply(r).results) = 2

\* C2: a well-formed POST /rerank is answered 400 bad_request exactly when
\* its query is blank, its documents list is empty, or it has more documents
\* than the configured maximum (1000 when none is configured); in the last
\* case the message carries that maximum.
C2_BadRequestExactly ==
    \A r \in Reqs :
        (request[r] # NoRequest /\ WellFormedRerank(r)) =>
            LET tooMany == Len(request[r].body.documents) > MaxBatchSize(env)
            IN  /\ (Done(r) /\ IsError(TheReply(r), 400, "bad_request"))
                       <=> (TooFew(r) \/ tooMany)
                /\ (~TooFew(r) /\ tooMany) =>
                       /\ TheReply(r).text = "Too many documents, max: "
                       /\ TheReply(r).num = MaxBatchSize(env)

\* No maximum is configured; 1001 documents are rejected naming 1000.
C2_Witness ==
    \E r \in Reqs :
        /\ Done(r) /\ WellFormedRerank(r)
        /\ env = Unset
        /\ ~Blank(request[r].body.query)
        /\ Len(request[r].body.documents) = 1001
        /\ IsError(TheReply(r), 400, "bad_request")
        /\ TheReply(r).num = 1000

\* C3: a backend POST exists only for a request that passed validation; a
\* request answered bad_request has made no backend call.
C3_ValidationBeforeNetwork ==
    \A r \in Reqs :
        /\ calls[r] # <<>> =>
               /\ WellFormedRerank(r)
               /\ ~TooFew(r)
               /\ Len(request[r].body.documents) <= MaxBatchSize(env)
        /\ (Done(r) /\ IsError(TheReply(r), 400, "bad_request")) =>
               calls[r] = <<>> /\ backend[r] = NoBackend

\* One request is rejected by validation without a call while the call of
\* another is in flight.
C3_Witness ==
    \E r, o \in Reqs :
        /\ Done(r) /\ WellFormedRerank(r)
        /\ IsError(TheReply(r), 400, "bad_request")
        /\ calls[r] = <<>>
        /\ pc[o] = "sending" /\ Len(calls[o]) = 1

\* C4: for a validated request, a non-2xx backend status, a 2xx body that is
\* no array of {index, score}, or an array whose length differs from the
\* number of documents ends the request with 502 tei_error and no results.
C4_BackendFailureIs502 ==
    \A r \in Reqs :
        (/\ Done(r) /\ calls[r] # <<>> /\ backend[r].stage = "body"
         /\ \/ backend[r].status \notin 200..299
            \/ Answered2xx(r) /\ ~WellShaped(r)
            \/ Answered2xx(r) /\ WellShaped(r)
                   /\ Len(Items(r)) # Len(request[r].body.documents))
        => /\ Len(response[r]) = 1
           /\ IsError(TheReply(r), 502, "tei_error")
           /\ TheReply(r).results = NoResults

\* A 2xx reply with one well-shaped entry for two documents is answered 502.
C4_Witness ==
    \E r \in Reqs :
        /\ Done(r) /\ Answered2xx(r) /\ WellShaped(r)
        /\ Len(request[r].body.documents) = 2
        /\ Len(Items(r)) = 1
        /\ IsError(TheReply(r), 502, "tei_error")

ClientFailed(r) == client[r] = "failed"
CallFailed(r) ==
    \/ backend[r].stage = "send_error"
    \/ backend[r].stage = "body" /\ backend[r].status \notin 200..299
    \/ backend[r].stage = "body" /\ ~backend[r].read.ok

\* C5 as stated: every failure of the backend client step (client
\* construction, transport, non-2xx status, body read) ends the request with
\* 502 tei_error.
C5_AllClientFailuresAre502 ==
    \A r \in Reqs :
        (Done(r) /\ (ClientFailed(r) \/ CallFailed(r))) =>
            IsError(TheReply(r), 502, "tei_error")

\* C5 amended: a transport failure, a non-2xx status and a body-read failure
\* end the request with 502 tei_error; a client construction failure ends it
\* with 500 internal_error.
C5_ClientFailureIs500 ==
    \A r \in Reqs :
        /\ (Done(r) /\ CallFailed(r)) => IsError(TheReply(r), 502, "tei_error")
        /\ (Done(r) /\ ClientFailed(r)) =>
               /\ IsError(TheReply(r), 500, "internal_error")
               /\ calls[r] = <<>>

\* A validated request whose HTTP client could not be built.
C5_Witness ==
    \E r \in Reqs :
        /\ Done(r) /\ ClientFailed(r) /\ WellFormedRerank(r)
        /\ max_batch_size[r] # <<>>
        /\ IsError(TheReply(r), 500, "internal_error")

\* C6 as stated: every request other than GET /health and POST /rerank is
\* answered 404 not_found.
C6_UnmatchedIs404 ==
    \A r \in Reqs :
        (/\ Done(r)
         /\ ~(request[r].method = "GET" /\ request[r].path = <<"health">>)
         /\ ~(request[r].method = "POST" /\ request[r].path = <<"rerank">>))
        => IsError(TheReply(r), 404, "not_found")

\* C7 as stated: whether a request is rejected for its number of documents
\* is decided by the limit the configuration had at startup.
C7_LimitFixedAtStartup ==
    \A r \in Reqs :
        (Done(r) /\ WellFormedRerank(r) /\ ~TooFew(r)) =>
            (IsError(TheReply(r), 400, "bad_request")
                 <=> Len(request[r].body.documents) > MaxBatchSize(env0))

Outcome(req, e, cl, b) ==
    IF HealthMatches(req) THEN HealthReply
    ELSE IF RerankFilter(req) # "extracted"
    THEN handle_rejection(Rejection(RerankFilter(req), "", 0))
    ELSE IF Validate(req.body, e).result.kind # "ok"
    THEN handle_rejection(Validate(req.body, e).result)
    ELSE IF cl = "failed"
    THEN handle_rejection(Rejection("InternalError", "HTTP client creation failed", 0))
    ELSE IF b.stage = "send_error"
    THEN handle_rejection(TEIError("Failed to connect to TEI service: ", 0))
    ELSE ProcessResponse(req.body.documents, b.status, b.read)

Local(r) ==
    <<pc[r], request[r], max_batch_size[r], client[r], calls[r], backend[r], response[r]>>

\* C9: under every interleaving, the reply to a request is a function of its
\* own body, the startup configuration and the backend's answer to its own
\* call, and a step of one task changes nothing another task reads.
C9_Independent ==
    /\ [](\A r \in Reqs :
              Done(r) => response[r] = <<Outcome(request[r], env0, client[r], backend[r])>>)
    /\ [][/\ env' = env
          /\ \A r, o \in Reqs : (Local(r)' # Local(r) /\ o # r) => Local(o)' = Local(o)]_vars

\* Two different requests overlapped: one is answered with results while the
\* other, which got a different backend status, still waits for its body.
C9_Witness ==
    \E r, o \in Reqs :
        /\ GoodAnswer(r) /\ TheReply(r).tag = "results"
        /\ pc[o] = "reading"
        /\ request[o] # request[r]
        /\ backend[o].status # backend[r].status

\* The entries of seq with score s, in order.
WithScore(seq, s) ==
    LET Has(e) == e.score = s IN SelectSeq(seq, Has)

\* C10: entries of equal score appear in the reply in the order in which the
\* backend returned them.
C10_StableTies ==
    \A r \in Reqs :
        GoodAnswer(r) =>
            \A s \in 0..MaxScore : WithScore(ResultEntries(r), s) = WithScore(Items(r), s)

\* Two entries of equal score, the larger index first: the order is kept.
C10_Witness ==
    \E r \in Reqs :
        /\ GoodAnswer(r)
        /\ Len(Items(r)) = 2
        /\ Items(r)[1].score = Items(r)[2].score
        /\ Items(r)[1].index > Items(r)[2].index
        /\ TheReply(r).results[1].index = Items(r)[1].index

====
